---- MODULE Spec2Model ----
(***************************************************************************)
(* Model of llm_editor.py: the issue-driven website editor.                *)
(*                                                                         *)
(* Texts (the page, the fragment, the model's reply) are sequences of      *)
(* lexical tokens: opening tags, closing tags, self-closing tags and text  *)
(* chunks.  BeautifulSoup(..., 'html.parser') is modelled by what it does  *)
(* on such a sequence (a stack of open tags, unknown end tags ignored,     *)
(* void elements closed at once, script/style read as raw text, blank text *)
(* collapsed, everything still open closed at the end), str(soup) by the   *)
(* serialisation of the tree, so a parse/serialise round trip normalises.  *)
(* Tree nodes are addressed by their path of child indices.                *)
(***************************************************************************)
EXTENDS Integers, Sequences, FiniteSets, TLC

VARIABLES pc, user_instructions, current_html, file_sha, form_html,
          html_without_form, prompt, llm_response, new_html, final_html,
          commit_sha, error, exit_code, calls, log, repo, issues

vars == <<pc, user_instructions, current_html, file_sha, form_html,
          html_without_form, prompt, llm_response, new_html, final_html,
          commit_sha, error, exit_code, calls, log, repo, issues>>

\* Two invocations of the script, each triggered by its own issue.
Runs == {1, 2}

REPO_OWNER == "owner"
REPO_NAME == "site"

-----------------------------------------------------------------------------
(* Tokens of a text *)

Open(n, a) == [k |-> "open", name |-> n, attrs |-> a]
SelfClose(n, a) == [k |-> "selfclose", name |-> n, attrs |-> a]
Close(n) == [k |-> "close", name |-> n, attrs |-> <<>>]
Text(s) == [k |-> "text", name |-> s, attrs |-> <<>>]

SP == Text(" ")
NL == Text("\n")
FENCE == Text("<fence>")   \* three backquotes
HTMLWORD == Text("html")

\* \s of the regular expression, str.strip() and bs4's blank-string test
IsSpace(t) == t.k = "text" /\ (t.name = " " \/ t.name = "\n")

-----------------------------------------------------------------------------
(* Trees: what BeautifulSoup builds *)

Element(n, a, c) == [name |-> n, attrs |-> a, data |-> <<>>, contents |-> c]
NavigableString(d) == [name |-> "#text", attrs |-> <<>>, data |-> d, contents |-> <<>>]
EmptySoup == Element("[document]", <<>>, <<>>)

IsTag(node) == node.name # "#text"

\* elements html.parser's tree builder closes as soon as they open
VoidTags == {"area", "base", "br", "col", "embed", "hr", "img", "input",
             "link", "meta", "param", "source", "track", "wbr"}

\* elements whose content html.parser reads as raw text up to their end tag
CDataTags == {"script", "style"}

Last(s) == s[Len(s)]
Front(s) == SubSeq(s, 1, Len(s) - 1)

\* endData(): a text chunk made only of blanks becomes one blank
CollapseBlank(d) ==
  IF \A i \in 1..Len(d) : IsSpace(d[i])
  THEN IF \E i \in 1..Len(d) : d[i] = NL THEN <<NL>> ELSE <<SP>>
  ELSE d

\* the stack is the list of open elements, the document object first; each
\* holds the children already attached to it
AddChild(stack, node) ==
  [stack EXCEPT ![Len(stack)].contents = Append(@, node)]

AddData(stack, t, textopen) ==
  IF textopen
  THEN LET top == Last(stack)
           n == Len(top.contents)
       IN [stack EXCEPT ![Len(stack)].contents[n].data = Append(@, t)]
  ELSE AddChild(stack, NavigableString(<<t>>))

EndData(stack, textopen) ==
  IF textopen
  THEN LET top == Last(stack)
           n == Len(top.contents)
       IN [stack EXCEPT ![Len(stack)].contents[n].data = CollapseBlank(@)]
  ELSE stack

PopTag(stack) == AddChild(Front(stack), Last(stack))

RECURSIVE PopDownTo(_, _)
PopDownTo(stack, depth) ==
  IF Len(stack) <= depth THEN stack ELSE PopDownTo(PopTag(stack), depth)

\* _popToTag: close everything up to the most recent open element of that
\* name; an end tag that matches no open element is ignored
PopToTag(stack, name) ==
  LET open == {i \in 2..Len(stack) : stack[i].name = name}
  IN IF open = {} THEN stack
     ELSE PopDownTo(stack, (CHOOSE i \in open : \A j \in open : j <= i) - 1)

RECURSIVE ParseFrom(_, _, _, _)
ParseFrom(toks, i, stack, textopen) ==
  IF i > Len(toks)
  THEN PopDownTo(EndData(stack, textopen), 1)[1]
  ELSE LET t == toks[i]
           top == Last(stack)
           raw == top.name \in CDataTags /\ ~(t.k = "close" /\ t.name = top.name)
       IN IF t.k = "text" \/ raw
          THEN ParseFrom(toks, i + 1, AddData(stack, t, textopen), TRUE)
          ELSE LET st == EndData(stack, textopen)
               IN IF t.k = "close"
                  THEN ParseFrom(toks, i + 1, PopToTag(st, t.name), FALSE)
                  ELSE IF t.k = "selfclose" \/ t.name \in VoidTags
                  THEN ParseFrom(toks, i + 1,
                                 AddChild(st, Element(t.name, t.attrs, <<>>)), FALSE)
                  ELSE ParseFrom(toks, i + 1,
                                 Append(st, Element(t.name, t.attrs, <<>>)), FALSE)

\* BeautifulSoup(text, 'html.parser')
BeautifulSoup(toks) == ParseFrom(toks, 1, <<EmptySoup>>, FALSE)

RECURSIVE Str(_)
RECURSIVE StrAll(_, _)
StrAll(nodes, i) ==
  IF i > Len(nodes) THEN <<>> ELSE Str(nodes[i]) \o StrAll(nodes, i + 1)

\* str(node)
Str(node) ==
  IF node.name = "#text" THEN node.data
  ELSE IF node.name = "[document]" THEN StrAll(node.contents, 1)
  ELSE IF node.name \in VoidTags THEN <<SelfClose(node.name, node.attrs)>>
  ELSE <<Open(node.name, node.attrs)>> \o StrAll(node.contents, 1)
       \o <<Close(node.name)>>

-----------------------------------------------------------------------------
(* Searching and editing a tree *)

ANY == {"*"}

HasAttr(attrs, want) ==
  \/ want = <<>>
  \/ \E i \in 1..Len(attrs) :
       i % 2 = 1 /\ i < Len(attrs) /\ attrs[i] = want[1] /\ attrs[i + 1] = want[2]

Matches(node, names, want) ==
  IsTag(node) /\ (names = ANY \/ node.name \in names) /\ HasAttr(node.attrs, want)

\* find_all: the paths of the matching descendants, in document order
RECURSIVE FindAllFrom(_, _, _, _, _)
FindAllFrom(node, path, i, names, want) ==
  IF i > Len(node.contents) THEN <<>>
  ELSE LET c == node.contents[i]
           p == Append(path, i)
       IN (IF Matches(c, names, want) THEN <<p>> ELSE <<>>)
          \o FindAllFrom(c, p, 1, names, want)
          \o FindAllFrom(node, path, i + 1, names, want)

FindAll(node, names, want) == FindAllFrom(node, <<>>, 1, names, want)

RECURSIVE NodeAt(_, _)
NodeAt(node, path) ==
  IF path = <<>> THEN node ELSE NodeAt(node.contents[path[1]], Tail(path))

RemoveIndex(s, i) == SubSeq(s, 1, i - 1) \o SubSeq(s, i + 1, Len(s))

\* the tree with the contents of the node at path replaced
RECURSIVE WithContents(_, _, _)
WithContents(node, path, c) ==
  IF path = <<>> THEN [node EXCEPT !.contents = c]
  ELSE [node EXCEPT !.contents[path[1]] = WithContents(@, Tail(path), c)]

\* Tag.extract(): the object at the root of the tree has no parent and
\* stays where it is
Extract(soup, path) ==
  IF path = <<>> THEN soup
  ELSE WithContents(soup, Front(path),
                    RemoveIndex(NodeAt(soup, Front(path)).contents, Last(path)))

\* the nodes a call of insert/append attaches: a BeautifulSoup object is
\* not nested, its children are attached instead
Attached(node) == IF node.name = "[document]" THEN node.contents ELSE <<node>>

\* a variant of insert that attaches the node after the children
InsertLast(soup, path, node) ==
  WithContents(soup, path, NodeAt(soup, path).contents \o Attached(node))

\* Tag.insert(0, node)
InsertFirst(soup, path, node) ==
  WithContents(soup, path, Attached(node) \o NodeAt(soup, path).contents)

\* Tag.append(node)
AppendTo(soup, path, node) ==
  WithContents(soup, path, NodeAt(soup, path).contents \o Attached(node))

-----------------------------------------------------------------------------
(* extract_form *)

\* the default fragment, with the owner and the name of the repository
\* substituted into the form's action
DefaultForm(owner, name) ==
  << NL, Open("div", <<"id", "prompt-form">>),
     NL, Open("h3", <<>>), Text("Modify this webpage"), Close("h3"),
     NL, Open("form", <<"action", owner, name>>),
     NL, Open("input", <<"type", "hidden">>),
     NL, Open("input", <<"type", "text">>),
     NL, Open("button", <<"type", "submit">>), Text("Submit"), Close("button"),
     NL, Close("form"),
     NL, Open("p", <<>>), Open("small", <<>>), Text("Your request"),
         Close("small"), Close("p"),
     NL, Close("div"), NL >>

\* the loop over the text inputs: the parent of the first input whose
\* parent has a button somewhere below it; <<>> when there is none, else
\* a one-element sequence holding the parent's path
RECURSIVE InputParentWithButton(_, _, _)
InputParentWithButton(soup, inputs, i) ==
  IF i > Len(inputs) THEN <<>>
  ELSE LET parent == Front(inputs[i])
       IN IF FindAll(NodeAt(soup, parent), {"button"}, <<>>) # <<>>
          THEN <<parent>>
          ELSE InputParentWithButton(soup, inputs, i + 1)

\* the node extract_form takes as the form: <<>> for None
FindForm(soup) ==
  LET forms == FindAll(soup, {"form"}, <<>>)
      inputs == FindAll(soup, {"input"}, <<"type", "text">>)
      buttons == FindAll(soup, {"button"}, <<>>)
  IN IF forms # <<>> THEN <<forms[1]>>
     ELSE IF inputs # <<>> /\ buttons # <<>>
     THEN InputParentWithButton(soup, inputs, 1)
     ELSE <<>>

extract_form(html_content) ==
  LET soup == BeautifulSoup(html_content)
      form == FindForm(soup)
  IN IF form = <<>>
     THEN [form_html |-> DefaultForm(REPO_OWNER, REPO_NAME),
           html_without_form |-> html_content]
     ELSE [form_html |-> Str(NodeAt(soup, form[1])),
           html_without_form |-> Str(Extract(soup, form[1]))]

-----------------------------------------------------------------------------
(* add_form_back *)

\* the tags add_form_back recovers from a text with no html and no body
ContentTags == {"div", "section", "p", "h1", "h2", "h3", "script", "style"}

\* a node without the descendants that match names
RECURSIVE Prune(_, _)
RECURSIVE PruneAll(_, _, _)
PruneAll(nodes, i, names) ==
  IF i > Len(nodes) THEN <<>>
  ELSE (IF Matches(nodes[i], names, <<>>) THEN <<>>
        ELSE <<Prune(nodes[i], names)>>)
       \o PruneAll(nodes, i + 1, names)

Prune(node, names) == [node EXCEPT !.contents = PruneAll(@, 1, names)]

\* for tag in content_soup.find_all([...]): soup.body.append(tag).  append
\* moves the tag: one that sits inside a tag appended earlier is taken out
\* of it, so each ends as a child of the body without the matching tags
\* that were below it
RECURSIVE AppendEach(_, _, _, _, _)
AppendEach(soup, body, content_soup, tags, i) ==
  IF i > Len(tags) THEN soup
  ELSE AppendEach(AppendTo(soup, body, Prune(NodeAt(content_soup, tags[i]), ContentTags)),
                  body, content_soup, tags, i + 1)

add_form_back(form_text, new_text) ==
  LET soup == BeautifulSoup(new_text)
      form_soup == BeautifulSoup(form_text)
      first == FindAll(form_soup, ANY, <<>>)
      form_element == IF first # <<>> THEN NodeAt(form_soup, first[1]) ELSE form_soup
      body_tag == FindAll(soup, {"body"}, <<>>)
      html_tag == FindAll(soup, {"html"}, <<>>)
  IN IF body_tag # <<>>
     THEN Str(InsertFirst(soup, body_tag[1], form_element))
     ELSE IF html_tag # <<>>
     THEN Str(AppendTo(soup, html_tag[1],
                       AppendTo(Element("body", <<>>, <<>>), <<>>, form_element)))
     ELSE LET skeleton == BeautifulSoup(<<Open("html", <<>>), Open("body", <<>>),
                                          Close("body"), Close("html")>>)
              body == FindAll(skeleton, {"body"}, <<>>)[1]
              content_soup == BeautifulSoup(new_text)
              tags == FindAll(content_soup, ContentTags, <<>>)
          IN Str(AppendEach(AppendTo(skeleton, body, form_element),
                            body, content_soup, tags, 1))

-----------------------------------------------------------------------------
(* extract_html_from_llm_response *)

RECURSIVE SkipSpace(_, _)
SkipSpace(s, i) ==
  IF i <= Len(s) /\ IsSpace(s[i]) THEN SkipSpace(s, i + 1) ELSE i

RECURSIVE SkipSpaceBack(_, _)
SkipSpaceBack(s, j) ==
  IF j >= 1 /\ IsSpace(s[j]) THEN SkipSpaceBack(s, j - 1) ELSE j

\* str.strip()
Strip(s) == SubSeq(s, SkipSpace(s, 1), SkipSpaceBack(s, Len(s)))

\* the lazy group ([\s\S]*?) followed by \s* and the closing fence: the
\* group grows one token at a time until blanks and a fence follow it.
\* 0 when the text ends first.
RECURSIVE GroupEnd(_, _)
GroupEnd(s, e) ==
  IF e > Len(s) THEN 0
  ELSE LET f == SkipSpace(s, e)
       IN IF f <= Len(s) /\ s[f] = FENCE THEN e ELSE GroupEnd(s, e + 1)

\* a variant of the pattern without the optional tag: fence \s* (...) \s* fence
MatchAtNoTag(s, i) ==
  IF s[i] # FENCE THEN [found |-> FALSE, group |-> <<>>, next |-> i + 1]
  ELSE LET b == SkipSpace(s, i + 1)
           e == GroupEnd(s, b)
       IN IF e = 0 THEN [found |-> FALSE, group |-> <<>>, next |-> i + 1]
          ELSE [found |-> TRUE, group |-> SubSeq(s, b, e - 1),
                next |-> SkipSpace(s, e) + 1]

\* one match of the pattern fence (?:html)? \s* ([\s\S]*?) \s* fence at i
MatchAt(s, i) ==
  IF s[i] # FENCE THEN [found |-> FALSE, group |-> <<>>, next |-> i + 1]
  ELSE LET a == IF i + 1 <= Len(s) /\ s[i + 1] = HTMLWORD THEN i + 2 ELSE i + 1
           b == SkipSpace(s, a)
           e == GroupEnd(s, b)
       IN IF e = 0 THEN [found |-> FALSE, group |-> <<>>, next |-> i + 1]
          ELSE [found |-> TRUE, group |-> SubSeq(s, b, e - 1),
                next |-> SkipSpace(s, e) + 1]

\* html_pattern.findall(response_text)
RECURSIVE FindAllMatches(_, _)
FindAllMatches(s, i) ==
  IF i > Len(s) THEN <<>>
  ELSE LET m == MatchAt(s, i)
       IN (IF m.found THEN <<m.group>> ELSE <<>>) \o FindAllMatches(s, m.next)

\* the tags whose presence makes an unfenced reply count as markup
MarkupTags == {"html", "body", "div", "section", "header", "footer", "p",
               "h1", "h2", "h3", "h4", "h5", "h6"}

\* raised is TRUE for HTMLExtractionError
extract_html_from_llm_response(response_text) ==
  LET matches == FindAllMatches(response_text, 1)
      html_tags == FindAll(BeautifulSoup(response_text), MarkupTags, <<>>)
  IN IF matches # <<>> THEN [raised |-> FALSE, html |-> Strip(matches[1])]
     ELSE IF html_tags # <<>> THEN [raised |-> FALSE, html |-> Strip(response_text)]
     ELSE [raised |-> TRUE, html |-> <<>>]

-----------------------------------------------------------------------------
(* create_prompt *)

create_prompt(html_content, instructions) ==
  << NL, Text("Please modify the following webpage"), Text("INSTRUCTIONS:"),
     Text(instructions), Text("IMPORTANT RULES"), Text("CURRENT HTML:"), NL,
     FENCE, HTMLWORD, NL >>
  \o html_content
  \o << NL, FENCE, NL, Text("Provide the complete updated HTML file:"), NL >>

-----------------------------------------------------------------------------
(* The collaborators and the driver, main *)

\* content travels base64-encoded between the script and the document store
B64Encode(text) == [base64 |-> text]
B64Decode(enc) == enc.base64

\* one external call: the operation, what it carried, and how it ended:
\* "ok" for a success status with a complete response
Call(r, op, arg, status) ==
  calls' = [calls EXCEPT ![r] = Append(@, [op |-> op, arg |-> arg, status |-> status])]

Logged(r, msg) == log' = [log EXCEPT ![r] = Append(@, msg)]
Goto(r, next) == pc' = [pc EXCEPT ![r] = next]
Raised(r, kind) == error' = [error EXCEPT ![r] = kind]

\* how each collaborator can answer.  "ok" is a success status with a
\* complete response, "error" a failure status or a network failure; the
\* others are success statuses whose response lacks a field the script reads
Success == {"ok"}
IssueOutcomes == {"ok", "error", "no_body", "no_title"}
HasBody == {"ok", "no_title"}
ContentOutcomes == {"ok", "error", "no_content", "no_sha"}
CompletionOutcomes == {"ok", "error", "empty"}
CommitOutcomes == {"ok", "error", "no_commit"}
CommentOutcomes == {"ok", "error"}

\* issue = get_issue_details(); user_instructions = issue["body"];
\* logger.info(... issue['title'] ...)
GetIssueDetails(r, outcomes, bodies) ==
  /\ pc[r] = "get_issue"
  /\ \E resp \in outcomes, body \in bodies :
       /\ Call(r, "getIssue", "", resp)
       /\ user_instructions' =
            IF resp \in HasBody
            THEN [user_instructions EXCEPT ![r] = body] ELSE user_instructions
       /\ IF resp = "ok"
          THEN Logged(r, "Processing issue") /\ UNCHANGED error /\ Goto(r, "get_html")
          ELSE IF resp = "error"
          THEN Raised(r, "GitHubAPIError") /\ UNCHANGED log /\ Goto(r, "handle_error")
          ELSE Raised(r, "KeyError") /\ UNCHANGED log /\ Goto(r, "uncaught")
  /\ UNCHANGED <<current_html, file_sha, form_html, html_without_form, prompt,
                 llm_response, new_html, final_html, commit_sha, exit_code,
                 repo, issues>>

\* current_html, file_sha = get_current_html()
GetCurrentHtml(r, outcomes) ==
  /\ pc[r] = "get_html"
  /\ \E resp \in outcomes :
       /\ Call(r, "getFile", "", resp)
       /\ IF resp = "ok"
          THEN /\ current_html' = [current_html EXCEPT
                                     ![r] = B64Decode(B64Encode(repo.content))]
               /\ file_sha' = [file_sha EXCEPT ![r] = repo.sha]
               /\ Logged(r, "Retrieved current index.html content")
               /\ UNCHANGED error
               /\ Goto(r, "extract_form")
          ELSE /\ UNCHANGED <<current_html, file_sha, log>>
               /\ IF resp = "no_sha"
                  THEN Raised(r, "KeyError") /\ Goto(r, "uncaught")
                  ELSE Raised(r, "GitHubAPIError") /\ Goto(r, "handle_error")
  /\ UNCHANGED <<user_instructions, form_html, html_without_form, prompt,
                 llm_response, new_html, final_html, commit_sha, exit_code,
                 repo, issues>>

\* form_html, html_without_form = extract_form(current_html)
ExtractForm(r) ==
  /\ pc[r] = "extract_form"
  /\ LET res == extract_form(current_html[r])
     IN /\ form_html' = [form_html EXCEPT ![r] = res.form_html]
        /\ html_without_form' = [html_without_form EXCEPT ![r] = res.html_without_form]
  /\ Logged(r, "Extracted form from HTML")
  /\ Goto(r, "create_prompt")
  /\ UNCHANGED <<user_instructions, current_html, file_sha, prompt, llm_response,
                 new_html, final_html, commit_sha, error, exit_code, calls,
                 repo, issues>>

\* prompt = create_prompt(html_without_form, user_instructions)
CreatePrompt(r) ==
  /\ pc[r] = "create_prompt"
  /\ prompt' = [prompt EXCEPT ![r] = create_prompt(html_without_form[r],
                                                   user_instructions[r])]
  /\ Logged(r, "Created prompt for LLM (without form)")
  /\ Goto(r, "get_completion")
  /\ UNCHANGED <<user_instructions, current_html, file_sha, form_html,
                 html_without_form, llm_response, new_html, final_html,
                 commit_sha, error, exit_code, calls, repo, issues>>

\* llm_response = get_gemini_completion(prompt): any exception, an empty
\* text included, comes out as GeminiAPIError
GetGeminiCompletion(r, outcomes, texts) ==
  /\ pc[r] = "get_completion"
  /\ \E resp \in outcomes, text \in texts :
       /\ Call(r, "complete", "", resp)
       /\ IF resp = "ok"
          THEN /\ llm_response' = [llm_response EXCEPT ![r] = text]
               /\ Logged(r, "Received response from Gemini")
               /\ UNCHANGED error
               /\ Goto(r, "extract_html")
          ELSE /\ UNCHANGED <<llm_response, log>>
               /\ Raised(r, "GeminiAPIError")
               /\ Goto(r, "handle_error")
  /\ UNCHANGED <<user_instructions, current_html, file_sha, form_html,
                 html_without_form, prompt, new_html, final_html, commit_sha,
                 exit_code, repo, issues>>

\* a variant without the inner try: HTMLExtractionError reaches the except
\* clause of main
ExtractHtmlNoFallback(r) ==
  /\ pc[r] = "extract_html"
  /\ LET res == extract_html_from_llm_response(llm_response[r])
     IN IF res.raised
        THEN /\ UNCHANGED <<new_html, log>>
             /\ Raised(r, "HTMLExtractionError")
             /\ Goto(r, "handle_error")
        ELSE /\ new_html' = [new_html EXCEPT ![r] = res.html]
             /\ Logged(r, "Extracted HTML from LLM response")
             /\ UNCHANGED error
             /\ Goto(r, "add_form_back")
  /\ UNCHANGED <<user_instructions, current_html, file_sha, form_html,
                 html_without_form, prompt, llm_response, final_html,
                 commit_sha, exit_code, calls, repo, issues>>

\* try: new_html = extract_html_from_llm_response(llm_response)
\* except HTMLExtractionError: new_html = llm_response
ExtractHtml(r) ==
  /\ pc[r] = "extract_html"
  /\ LET res == extract_html_from_llm_response(llm_response[r])
     IN IF res.raised
        THEN /\ new_html' = [new_html EXCEPT ![r] = llm_response[r]]
             /\ Logged(r, "HTML extraction failed, using raw LLM response")
        ELSE /\ new_html' = [new_html EXCEPT ![r] = res.html]
             /\ Logged(r, "Extracted HTML from LLM response")
  /\ Goto(r, "add_form_back")
  /\ UNCHANGED <<user_instructions, current_html, file_sha, form_html,
                 html_without_form, prompt, llm_response, final_html,
                 commit_sha, error, exit_code, calls, repo, issues>>

\* final_html = add_form_back(form_html, new_html)
AddFormBack(r) ==
  /\ pc[r] = "add_form_back"
  /\ final_html' = [final_html EXCEPT ![r] = add_form_back(form_html[r], new_html[r])]
  /\ Logged(r, "Added form back to the modified HTML")
  /\ Goto(r, "commit_file")
  /\ UNCHANGED <<user_instructions, current_html, file_sha, form_html,
                 html_without_form, prompt, llm_response, new_html, commit_sha,
                 error, exit_code, calls, repo, issues>>

\* a variant that tries the publish again after a failure
CommitFileRetry(r) ==
  /\ pc[r] = "commit_file"
  /\ \E resp \in CommitOutcomes :
       LET accepted == resp # "error" /\ file_sha[r] = repo.sha
           done == accepted /\ resp = "ok"
           status == IF resp # "error" /\ ~accepted THEN "conflict" ELSE resp
       IN /\ Call(r, "putFile", "", status)
          /\ repo' = IF accepted
                     THEN [content |-> B64Decode(B64Encode(final_html[r])),
                           sha |-> repo.sha + 1]
                     ELSE repo
          /\ IF done
             THEN /\ commit_sha' = [commit_sha EXCEPT ![r] = repo.sha + 1]
                  /\ Logged(r, "Committed changes")
                  /\ Goto(r, "comment")
             ELSE /\ UNCHANGED <<commit_sha, log>>
                  /\ Goto(r, "commit_file")
          /\ UNCHANGED error
  /\ UNCHANGED <<user_instructions, current_html, file_sha, form_html,
                 html_without_form, prompt, llm_response, new_html, final_html,
                 exit_code, issues>>

\* a variant that publishes with the token the store holds now instead of
\* the one the run fetched
CommitFileCurrentToken(r) ==
  /\ pc[r] = "commit_file"
  /\ \E resp \in CommitOutcomes :
       LET accepted == resp # "error"
           done == accepted /\ resp = "ok"
       IN /\ Call(r, "putFile", "", resp)
          /\ repo' = IF accepted
                     THEN [content |-> B64Decode(B64Encode(final_html[r])),
                           sha |-> repo.sha + 1]
                     ELSE repo
          /\ IF done
             THEN /\ commit_sha' = [commit_sha EXCEPT ![r] = repo.sha + 1]
                  /\ Logged(r, "Committed changes")
                  /\ UNCHANGED error
                  /\ Goto(r, "comment")
             ELSE /\ UNCHANGED <<commit_sha, log>>
                  /\ Raised(r, "GitHubAPIError")
                  /\ Goto(r, "handle_error")
  /\ UNCHANGED <<user_instructions, current_html, file_sha, form_html,
                 html_without_form, prompt, llm_response, new_html, final_html,
                 exit_code, issues>>

\* commit_sha = commit_file(final_html, file_sha).  The store takes the
\* new content only with the version token of the content it holds; a
\* stale token is answered with an error status, which raise_for_status
\* turns into GitHubAPIError.  A response without commit.sha is a failure
\* of the step although the store has taken the content.
CommitFile(r) ==
  /\ pc[r] = "commit_file"
  /\ \E resp \in CommitOutcomes :
       LET accepted == resp # "error" /\ file_sha[r] = repo.sha
           done == accepted /\ resp = "ok"
           status == IF resp # "error" /\ ~accepted THEN "conflict" ELSE resp
       IN /\ Call(r, "putFile", "", status)
          /\ repo' = IF accepted
                     THEN [content |-> B64Decode(B64Encode(final_html[r])),
                           sha |-> repo.sha + 1]
                     ELSE repo
          /\ IF done
             THEN /\ commit_sha' = [commit_sha EXCEPT ![r] = repo.sha + 1]
                  /\ Logged(r, "Committed changes")
                  /\ UNCHANGED error
                  /\ Goto(r, "comment")
             ELSE /\ UNCHANGED <<commit_sha, log>>
                  /\ Raised(r, "GitHubAPIError")
                  /\ Goto(r, "handle_error")
  /\ UNCHANGED <<user_instructions, current_html, file_sha, form_html,
                 html_without_form, prompt, llm_response, new_html, final_html,
                 exit_code, issues>>

\* add_comment_to_issue(comment)
AddSuccessComment(r) ==
  /\ pc[r] = "comment"
  /\ \E resp \in CommentOutcomes :
       /\ Call(r, "postComment", "Website Updated", resp)
       /\ IF resp = "ok"
          THEN /\ issues' = [issues EXCEPT ![r].comments = Append(@, "Website Updated")]
               /\ Logged(r, "Added comment to issue")
               /\ UNCHANGED error
               /\ Goto(r, "close")
          ELSE /\ UNCHANGED <<issues, log>>
               /\ Raised(r, "GitHubAPIError")
               /\ Goto(r, "handle_error")
  /\ UNCHANGED <<user_instructions, current_html, file_sha, form_html,
                 html_without_form, prompt, llm_response, new_html, final_html,
                 commit_sha, exit_code, repo>>

\* github_request("PATCH", endpoint, {"state": "closed"}); return 0
CloseIssue(r) ==
  /\ pc[r] = "close"
  /\ \E resp \in CommentOutcomes :
       /\ Call(r, "closeIssue", "", resp)
       /\ IF resp = "ok"
          THEN /\ issues' = [issues EXCEPT ![r].state = "closed"]
               /\ Logged(r, "Closed issue")
               /\ exit_code' = [exit_code EXCEPT ![r] = 0]
               /\ UNCHANGED error
               /\ Goto(r, "done")
          ELSE /\ UNCHANGED <<issues, log, exit_code>>
               /\ Raised(r, "GitHubAPIError")
               /\ Goto(r, "handle_error")
  /\ UNCHANGED <<user_instructions, current_html, file_sha, form_html,
                 html_without_form, prompt, llm_response, new_html, final_html,
                 commit_sha, repo>>

\* except (GitHubAPIError, GeminiAPIError, HTMLExtractionError):
\*   try: add_comment_to_issue(error_message) except Exception: log it
\*   return 1
HandleError(r) ==
  /\ pc[r] = "handle_error"
  /\ \E resp \in CommentOutcomes :
       /\ Call(r, "postComment", "Error Updating Website", resp)
       /\ IF resp = "ok"
          THEN /\ issues' = [issues EXCEPT
                               ![r].comments = Append(@, "Error Updating Website")]
               /\ Logged(r, "Failed to update website")
          ELSE /\ UNCHANGED issues
               /\ Logged(r, "Failed to add error comment")
  /\ exit_code' = [exit_code EXCEPT ![r] = 1]
  /\ Goto(r, "done")
  /\ UNCHANGED <<user_instructions, current_html, file_sha, form_html,
                 html_without_form, prompt, llm_response, new_html, final_html,
                 commit_sha, error, repo>>

-----------------------------------------------------------------------------
(* Inputs *)

Seqs(A, n) == UNION {[1..k -> A] : k \in 0..n}

Instructions == {"make the background blue"}

FormTag == Open("form", <<"id", "prompt-form">>)
TextInput == Open("input", <<"type", "text">>)

\* a page with the form; a page with an input and a button in a div; a
\* page with neither
PageWithForm ==
  << Open("html", <<>>), Open("body", <<>>), FormTag, TextInput,
     Open("button", <<>>), Text("Go"), Close("button"), Close("form"),
     Open("p", <<>>), Text("hello"), Close("p"), Close("body"), Close("html") >>
PageWithInput ==
  << Open("html", <<>>), Open("body", <<>>), Open("div", <<>>), TextInput,
     Open("button", <<>>), Text("Go"), Close("button"), Close("div"),
     Open("p", <<>>), Text("hello"), Close("p"), Close("body"), Close("html") >>
PlainPage ==
  << Open("html", <<>>), Open("body", <<>>), Open("p", <<>>), Text("hello"),
     Close("p"), Close("body"), Close("html") >>
SourceDocs == {PageWithForm, PageWithInput, PlainPage}

\* a fenced document after a line of prose; prose only; a bare div
FencedReply ==
  << Text("Here is the page:"), NL, FENCE, HTMLWORD, NL,
     Open("html", <<>>), Open("body", <<>>), Open("p", <<>>), Text("blue"),
     Close("p"), Close("body"), Close("html"), NL, FENCE, NL >>
ProseReply == << Text("Sorry, I cannot help with that.") >>
BareReply == << Open("div", <<>>), Text("hi"), Close("div") >>
Replies == {FencedReply, ProseReply, BareReply}

-----------------------------------------------------------------------------
(* Specifications *)

\* every run at the start of main, the store holding one of the pages
InitWith(pages) ==
  /\ pc = [r \in Runs |-> "get_issue"]
  /\ user_instructions = [r \in Runs |-> ""]
  /\ current_html = [r \in Runs |-> <<>>]
  /\ file_sha = [r \in Runs |-> 0]
  /\ form_html = [r \in Runs |-> <<>>]
  /\ html_without_form = [r \in Runs |-> <<>>]
  /\ prompt = [r \in Runs |-> <<>>]
  /\ llm_response = [r \in Runs |-> <<>>]
  /\ new_html = [r \in Runs |-> <<>>]
  /\ final_html = [r \in Runs |-> <<>>]
  /\ commit_sha = [r \in Runs |-> 0]
  /\ error = [r \in Runs |-> ""]
  /\ exit_code = [r \in Runs |-> -1]
  /\ calls = [r \in Runs |-> <<>>]
  /\ log = [r \in Runs |-> <<>>]
  /\ \E page \in pages : repo = [content |-> page, sha |-> 1]
  /\ issues = [r \in Runs |-> [state |-> "open", comments |-> <<>>]]

Init == InitWith(SourceDocs)

Next ==
  \E r \in Runs :
    \/ GetIssueDetails(r, IssueOutcomes, Instructions)
    \/ GetCurrentHtml(r, ContentOutcomes)
    \/ ExtractForm(r)
    \/ CreatePrompt(r)
    \/ GetGeminiCompletion(r, CompletionOutcomes, Replies)
    \/ ExtractHtml(r)
    \/ AddFormBack(r)
    \/ CommitFile(r)
    \/ AddSuccessComment(r)
    \/ CloseIssue(r)
    \/ HandleError(r)

Spec == Init /\ [][Next]_vars

-----------------------------------------------------------------------------
(* Specifications of one run over all short texts.  Run 1 goes through    *)
(* main with every collaborator answering; run 2 is not scheduled.        *)

MaxDocLen == 5
MaxCandLen == 4
MaxSrcLen == 3
MaxRespLen == 6

\* pages for the fragment extractor
ExtractAlphabet ==
  {Open("div", <<>>), Close("div"), TextInput, Open("button", <<>>),
   Open("form", <<>>), Close("form")}

\* replies for the response extractor
ResponseAlphabet == {FENCE, HTMLWORD, SP, Text("x"), Open("p", <<>>)}

\* candidate documents for the fragment re-inserter
CandidateAlphabet ==
  {Open("html", <<>>), Open("body", <<>>), Close("body"), Open("div", <<>>),
   Close("div"), Open("p", <<>>), Open("h4", <<>>), Text("x")}

\* pages with a form and candidates with a body for the round trip
FormAlphabet == {Open("form", <<>>), Close("form"), TextInput, Text("x")}
BodyAlphabet == {Open("html", <<>>), Open("body", <<>>), Close("body"),
                 Open("p", <<>>), Text("y")}

HasNode(toks, name) == FindAll(BeautifulSoup(toks), {name}, <<>>) # <<>>

ExtractDocs == Seqs(ExtractAlphabet, MaxDocLen)
ResponseTexts == Seqs(ResponseAlphabet, MaxRespLen)
CandidateTexts == Seqs(CandidateAlphabet, MaxCandLen)
FormDocs == {d \in Seqs(FormAlphabet, MaxSrcLen) : HasNode(d, "form")}
BodyDocs == {d \in Seqs(BodyAlphabet, MaxSrcLen) : HasNode(d, "body")}

NextExtract ==
  \/ GetIssueDetails(1, Success, Instructions)
  \/ GetCurrentHtml(1, Success)
  \/ ExtractForm(1)
  \/ CreatePrompt(1)

SpecExtract == InitWith(ExtractDocs) /\ [][NextExtract]_vars

NextResponse ==
  \/ GetIssueDetails(1, Success, Instructions)
  \/ GetCurrentHtml(1, Success)
  \/ ExtractForm(1)
  \/ CreatePrompt(1)
  \/ GetGeminiCompletion(1, Success, ResponseTexts)
  \/ ExtractHtml(1)

SpecResponse == InitWith({PageWithForm}) /\ [][NextResponse]_vars

NextReinsert ==
  \/ GetIssueDetails(1, Success, Instructions)
  \/ GetCurrentHtml(1, Success)
  \/ ExtractForm(1)
  \/ CreatePrompt(1)
  \/ GetGeminiCompletion(1, Success, CandidateTexts)
  \/ ExtractHtml(1)
  \/ AddFormBack(1)

SpecReinsert == InitWith(SourceDocs) /\ [][NextReinsert]_vars

NextRoundTrip ==
  \/ GetIssueDetails(1, Success, Instructions)
  \/ GetCurrentHtml(1, Success)
  \/ ExtractForm(1)
  \/ CreatePrompt(1)
  \/ GetGeminiCompletion(1, Success, BodyDocs)
  \/ ExtractHtml(1)
  \/ AddFormBack(1)

SpecRoundTrip == InitWith(FormDocs) /\ [][NextRoundTrip]_vars

-----------------------------------------------------------------------------
(* Vocabulary of the properties *)

HasLogged(r, msg) == \E i \in 1..Len(log[r]) : log[r][i] = msg
Extracted(r) == HasLogged(r, "Extracted form from HTML")
Prompted(r) == HasLogged(r, "Created prompt for LLM (without form)")
Reinserted(r) == HasLogged(r, "Added form back to the modified HTML")
FellBack(r) == HasLogged(r, "HTML extraction failed, using raw LLM response")
ResponseRead(r) == FellBack(r) \/ HasLogged(r, "Extracted HTML from LLM response")

Min(S) == CHOOSE x \in S : \A y \in S : x <= y

\* whole is rest with part inserted at one place
CutOut(whole, part, rest) ==
  \E i \in 0..Len(rest) :
    whole = SubSeq(rest, 1, i) \o part \o SubSeq(rest, i + 1, Len(rest))

Occurrences(part, whole) ==
  Cardinality({i \in 1..(Len(whole) - Len(part) + 1) :
                 SubSeq(whole, i, i + Len(part) - 1) = part})

\* t is s without its leading and trailing blanks
IsTrimOf(t, s) ==
  /\ \E a \in 0..Len(s) : \E b \in 0..(Len(s) - a) :
       /\ t = SubSeq(s, a + 1, Len(s) - b)
       /\ \A i \in 1..a : IsSpace(s[i])
       /\ \A i \in (Len(s) - b + 1)..Len(s) : IsSpace(s[i])
  /\ t # <<>> => ~IsSpace(t[1]) /\ ~IsSpace(t[Len(t)])

\* the serialisation of the element that stands for the fragment
FragmentElement(form_text) ==
  LET soup == BeautifulSoup(form_text)
      first == FindAll(soup, ANY, <<>>)
  IN IF first = <<>> THEN Str(soup) ELSE Str(NodeAt(soup, first[1]))

Normal(toks) == Str(BeautifulSoup(toks))

-----------------------------------------------------------------------------
(* The response extractor *)

Fences(s) == {i \in 1..Len(s) : s[i] = FENCE}

\* what lies between the first two fences, without the tag
FirstBlock(s) ==
  LET i1 == Min(Fences(s))
      i2 == Min(Fences(s) \ {i1})
      inner == SubSeq(s, i1 + 1, i2 - 1)
  IN IF inner # <<>> /\ inner[1] = HTMLWORD THEN Tail(inner) ELSE inner

\* the reply holds one fenced block, tagged html, and prose around it
OneHtmlBlock(s) ==
  /\ Cardinality(Fences(s)) = 2
  /\ Min(Fences(s)) < Len(s)
  /\ s[Min(Fences(s)) + 1] = HTMLWORD

\* C7: for a reply with exactly one fenced block tagged html, the response
\* extractor returns the interior of that block without its leading and
\* trailing blanks, whatever precedes or follows the block; for a reply
\* with several fenced blocks it returns the interior of the first.
C7_FirstFencedBlockTrimmed ==
  \A r \in Runs :
    ResponseRead(r) =>
      LET s == llm_response[r]
      IN /\ OneHtmlBlock(s) =>
              /\ ~FellBack(r)
              /\ IsTrimOf(new_html[r],
                          SubSeq(s, Min(Fences(s)) + 2, Min(Fences(s) \ {Min(Fences(s))}) - 1))
         /\ Cardinality(Fences(s)) >= 2 =>
              /\ ~FellBack(r)
              /\ IsTrimOf(new_html[r], FirstBlock(s))

\* a reply with prose before its one html block, whose interior had blanks
\* to remove and something left
C7_Witness ==
  \E r \in Runs :
    /\ ResponseRead(r)
    /\ OneHtmlBlock(llm_response[r])
    /\ llm_response[r][1] # FENCE
    /\ new_html[r] # <<>>
    /\ Len(new_html[r]) < Len(FirstBlock(llm_response[r]))

-----------------------------------------------------------------------------
(* Extraction followed by re-insertion *)

IsOpen(t, name) == t.k = "open" /\ t.name = name

FirstOpen(toks, name) == Min({i \in 1..Len(toks) : IsOpen(toks[i], name)})

\* toks is the serialisation of exactly one element
OneElement(toks) ==
  /\ Normal(toks) = toks
  /\ Len(BeautifulSoup(toks).contents) = 1
  /\ IsTag(BeautifulSoup(toks).contents[1])

\* C4: for a page with a form container and a candidate with a body, the
\* fragment is the page's first form, serialised; the final document is the
\* candidate with exactly that serialisation placed right after the opening
\* of its body, the rest of the candidate unchanged around it.
C4_RoundTrip ==
  \A r \in Runs :
    (Reinserted(r) /\ HasNode(current_html[r], "form") /\ HasNode(new_html[r], "body")) =>
      LET src == Normal(current_html[r])
          cand == Normal(new_html[r])
          f == FirstOpen(src, "form")
          b == FirstOpen(cand, "body")
      IN /\ OneElement(form_html[r])
         /\ form_html[r] = SubSeq(src, f, f + Len(form_html[r]) - 1)
         /\ final_html[r] = SubSeq(cand, 1, b) \o form_html[r]
                            \o SubSeq(cand, b + 1, Len(cand))

\* a round trip where the body of the candidate had content of its own
C4_Witness ==
  \E r \in Runs :
    /\ Reinserted(r)
    /\ HasNode(current_html[r], "form")
    /\ HasNode(new_html[r], "body")
    /\ Len(form_html[r]) > 2
    /\ LET out == BeautifulSoup(final_html[r])
           body == FindAll(out, {"body"}, <<>>)[1]
       IN /\ Len(NodeAt(out, body).contents) > 1
          /\ Str(NodeAt(out, body).contents[1]) = form_html[r]

-----------------------------------------------------------------------------
(* The fragment re-inserter *)

\* C1: whatever the candidate (with a body, with only an html node, with
\* neither), the document returned by add_form_back has an html node and a
\* body node and holds the fragment exactly once.
C1_RootBodyFragmentOnce ==
  \A r \in Runs :
    Reinserted(r) =>
      /\ HasNode(final_html[r], "html")
      /\ HasNode(final_html[r], "body")
      /\ Occurrences(FragmentElement(form_html[r]), final_html[r]) = 1

\* the tags C6 counts as content-bearing: every heading level
ClaimedContentTags ==
  {"div", "section", "p", "h1", "h2", "h3", "h4", "h5", "h6", "script", "style"}

\* C6: for a candidate with neither an html nor a body node, the returned
\* document has a body whose first child is the fragment, followed by the
\* candidate's content-bearing nodes (div, section, p, h1 to h6, script,
\* style) in document order, each exactly once.
C6_ContentRecovered ==
  \A r \in Runs :
    (Reinserted(r) /\ ~HasNode(new_html[r], "html") /\ ~HasNode(new_html[r], "body")) =>
      LET out == BeautifulSoup(final_html[r])
          cand == BeautifulSoup(new_html[r])
          want == FindAll(cand, ClaimedContentTags, <<>>)
          body == FindAll(out, {"body"}, <<>>)
      IN /\ body # <<>>
         /\ LET kids == NodeAt(out, body[1]).contents
            IN /\ Len(kids) = 1 + Len(want)
               /\ Str(kids[1]) = FragmentElement(form_html[r])
               /\ \A i \in 1..Len(want) : kids[i + 1].name = NodeAt(cand, want[i]).name
               /\ Len(FindAll(Element("rest", <<>>, Tail(kids)),
                              ClaimedContentTags, <<>>)) = Len(want)

-----------------------------------------------------------------------------
(* The fragment extractor *)

\* the extractor returned a node of the page, not the default fragment
FoundBySearch(r) ==
  Extracted(r) /\ form_html[r] # DefaultForm(REPO_OWNER, REPO_NAME)

\* the document the prompt embeds between its fence lines
PromptDocument(p) == SubSeq(p, Min(Fences(p)) + 3, Len(p) - 5)

\* C3: when the extractor finds the fragment in the page (a form, or the
\* parent of a text input that holds a button), the document it returns is
\* the page with that subtree cut out, and this is the document the prompt
\* carries to the generation service.
C3_FragmentCutOut ==
  \A r \in Runs :
    FoundBySearch(r) =>
      /\ CutOut(Normal(current_html[r]), form_html[r], html_without_form[r])
      /\ Prompted(r) => PromptDocument(prompt[r]) = html_without_form[r]

RECURSIVE CommonPrefix(_, _)
CommonPrefix(p, q) ==
  IF p = <<>> \/ q = <<>> \/ p[1] # q[1] THEN <<>>
  ELSE <<p[1]>> \o CommonPrefix(Tail(p), Tail(q))

Range(s) == {s[i] : i \in 1..Len(s)}

\* the lowest common ancestors of a text input and a button that are
\* elements of the page (not the document itself, not the button)
CommonAncestors(soup) ==
  {a \in {CommonPrefix(i, b) : i \in Range(FindAll(soup, {"input"}, <<"type", "text">>)),
                               b \in Range(FindAll(soup, {"button"}, <<>>))} :
     a # <<>> /\ NodeAt(soup, a).name # "button"}

\* every text input of the page lies inside an element
InputsInsideElements(soup) ==
  \A i \in Range(FindAll(soup, {"input"}, <<"type", "text">>)) : Len(i) > 1

\* C5: for a page without a form but with a text input and a button under
\* a common ancestor, the extractor returns the lowest common ancestor of
\* such a pair, cut out of the page, and not the default fragment.  Stated
\* for the pages whose text inputs all lie inside an element.
C5_LowestCommonAncestor ==
  \A r \in Runs :
    Extracted(r) =>
      LET soup == BeautifulSoup(current_html[r])
      IN (/\ ~HasNode(current_html[r], "form")
          /\ InputsInsideElements(soup)
          /\ CommonAncestors(soup) # {}) =>
           /\ form_html[r] # DefaultForm(REPO_OWNER, REPO_NAME)
           /\ \E a \in CommonAncestors(soup) : form_html[r] = Str(NodeAt(soup, a))
           /\ CutOut(Normal(current_html[r]), form_html[r], html_without_form[r])

-----------------------------------------------------------------------------
(* The driver *)

AllOps == {"getIssue", "getFile", "complete", "putFile", "postComment", "closeIssue"}

CallsOf(r, op) == {i \in 1..Len(calls[r]) : calls[r][i].op = op}
Comments(r, text) == {i \in CallsOf(r, "postComment") : calls[r][i].arg = text}
ErrorComments(r) == Comments(r, "Error Updating Website")
Succeeded(r, i) == calls[r][i].status = "ok"

\* main has returned, or has been left by an exception it does not catch
Finished(r) == pc[r] = "done" \/ pc[r] = "uncaught"

\* C2: a run returns 0 only after the publish, the success comment and the
\* close of the issue have succeeded, in that order; after a failure at any
\* step, a response without an expected field included, the run attempts
\* the error comment and returns 1; a failure of the error comment is only
\* logged, and the run still returns 1.
C2_ExitContract ==
  \A r \in Runs :
    /\ exit_code[r] = 0 =>
         \E i \in CallsOf(r, "putFile") :
           \E j \in Comments(r, "Website Updated") :
             \E k \in CallsOf(r, "closeIssue") :
               /\ i < j /\ j < k
               /\ Succeeded(r, i) /\ Succeeded(r, j) /\ Succeeded(r, k)
    /\ Finished(r) =>
         \A i \in 1..Len(calls[r]) :
           (~Succeeded(r, i) /\ i \notin ErrorComments(r)) =>
             /\ exit_code[r] = 1
             /\ \E j \in ErrorComments(r) : j > i
    /\ (Finished(r) /\ \E j \in ErrorComments(r) : ~Succeeded(r, j)) =>
         /\ exit_code[r] = 1
         /\ HasLogged(r, "Failed to add error comment")

\* C8 as claimed: in every run each of the six external operations is
\* invoked at most once.
C8_EachCallAtMostOnce ==
  \A r \in Runs : \A op \in AllOps : Cardinality(CallsOf(r, op)) <= 1

\* C8 as amended: issue retrieval, fetch, generation, publish and close
\* are each invoked at most once; the comment post at most once with the
\* success comment and at most once with the error comment, which is then
\* the last call of the run.
C8_NoCallRepeated ==
  \A r \in Runs :
    /\ \A op \in AllOps \ {"postComment"} : Cardinality(CallsOf(r, op)) <= 1
    /\ Cardinality(Comments(r, "Website Updated")) <= 1
    /\ Cardinality(ErrorComments(r)) <= 1
    /\ CallsOf(r, "postComment") = Comments(r, "Website Updated") \cup ErrorComments(r)
    /\ \A i \in ErrorComments(r) : i = Len(calls[r])

\* a finished run that posted the success comment and, the close having
\* failed, the error comment too
C8_Witness ==
  \E r \in Runs :
    /\ pc[r] = "done"
    /\ Cardinality(CallsOf(r, "postComment")) = 2
    /\ \E k \in CallsOf(r, "closeIssue") : ~Succeeded(r, k)

\* r takes its publish step, with a token that is not the store's
PublishesStale(r) ==
  pc[r] = "commit_file" /\ pc'[r] # "commit_file" /\ file_sha[r] # repo.sha

PublishFailed(r) == \E i \in CallsOf(r, "putFile") : ~Succeeded(r, i)

\* where a run is once one of its steps has failed
Failing == {"handle_error", "done"}

\* what every step keeps, for C9
C9_Step ==
  \A r \in Runs :
    /\ file_sha'[r] # file_sha[r] => pc[r] = "get_html" /\ CallsOf(r, "getFile") = {}
    /\ PublishesStale(r) =>
         /\ repo' = repo
         /\ pc'[r] = "handle_error"
         /\ issues'[r] = issues[r]
    /\ PublishFailed(r) =>
         /\ pc[r] \in Failing /\ pc'[r] \in Failing
         /\ Cardinality(CallsOf(r, "getFile")) = 1
         /\ Cardinality(CallsOf(r, "putFile")) = 1
         /\ calls'[r] # calls[r] => Last(calls'[r]).op = "postComment"
         /\ issues'[r].state = "open"
         /\ pc'[r] = "done" => exit_code'[r] = 1

\* C9: the token a run publishes with is set only by its fetch, and a run
\* fetches once; a publish with a stale token leaves the store as it is and
\* takes the run to its error handling; a run whose publish failed has
\* fetched once, published once, never closes its issue and returns 1.
C9_StaleTokenFails == [][C9_Step]_vars

\* two runs fetched the same version; one published; the other's publish
\* was refused and it ended with 1, its issue open, the store holding the
\* first one's document
C9_Witness ==
  \E r \in Runs : \E q \in Runs \ {r} :
    /\ file_sha[r] = file_sha[q] /\ file_sha[r] > 0
    /\ \E i \in CallsOf(q, "putFile") : Succeeded(q, i)
    /\ \E i \in CallsOf(r, "putFile") : calls[r][i].status = "conflict"
    /\ pc[r] = "done" /\ exit_code[r] = 1
    /\ issues[r].state = "open"
    /\ repo.content = final_html[q]
    /\ final_html[r] # final_html[q]

\* where a run is after the response extractor, and before the publish
PastExtraction == {"add_form_back", "commit_file", "comment", "close",
                   "handle_error", "done"}
BeforePublish == {"add_form_back", "commit_file"}

\* every call of the run but the error comment succeeded
NoCollaboratorFailure(r) ==
  \A i \in 1..Len(calls[r]) : Succeeded(r, i) \/ i \in ErrorComments(r)

\* C10: when the response extractor raises, the driver takes the raw reply
\* as the candidate and goes on to the re-insertion and the publish;
\* HTMLExtractionError never reaches the except clause of main, and a run
\* in which nothing else failed posts no error comment and returns 0.
C10_RawResponseFallback ==
  \A r \in Runs :
    /\ error[r] # "HTMLExtractionError"
    /\ FellBack(r) =>
         /\ new_html[r] = llm_response[r]
         /\ pc[r] \in PastExtraction
         /\ pc[r] # "add_form_back" =>
              Reinserted(r) /\ final_html[r] = add_form_back(form_html[r], llm_response[r])
         /\ pc[r] \notin BeforePublish => CallsOf(r, "putFile") # {}
         /\ NoCollaboratorFailure(r) => ErrorComments(r) = {} /\ exit_code[r] # 1
         /\ (pc[r] = "done" /\ NoCollaboratorFailure(r)) => exit_code[r] = 0

\* a run whose reply was prose only, ended with 0 and its document published
C10_Witness ==
  \E r \in Runs :
    /\ FellBack(r)
    /\ extract_html_from_llm_response(llm_response[r]).raised
    /\ pc[r] = "done" /\ exit_code[r] = 0
    /\ repo.content = final_html[r]

====
